---- MODULE Spec2Model ----
(***************************************************************************)
(* Model of the Tempesta TLS MPI memory pool (src/tls/mpool.c) and of the  *)
(* connection downcalls (src/tempesta_fw/connection.c).                    *)
(*                                                                         *)
(* Memory is a row of pages.  Page 0 is the unmapped NULL page, page 1 is  *)
(* a page frame below the kernel stacks, then come the two-page kernel     *)
(* stacks of the CPUs, then the remaining page frames, then one unmapped   *)
(* page.  A page frame holds a TlsMpiPool header (curr, size) in its first *)
(* sizeof(TlsMpiPool) bytes; the other bytes are modelled by the set of    *)
(* half-open offset ranges <<lo, hi>> that hold non-zero (secret) bytes.   *)
(***************************************************************************)
EXTENDS Integers, FiniteSets, Sequences, TLC

(* ------------------------------ bounds -------------------------------- *)
NCpus == 2          \* possible CPUs (for_each_possible_cpu)
NFrames == 3        \* page frames the buddy allocator owns
MaxAllocs == 3      \* ttls_mpi_profile_alloc_mpi calls explored
MaxPrep == 2        \* ttls_mpi_profile_create_ec runs explored
NSocks == 2         \* sockets, and objects of conn_cache

(* ------------------------- program constants -------------------------- *)
PAGE_SIZE == 4096
MCTX_ORDER == 0
HdrSize == 16                       \* sizeof(TlsMpiPool): two size_t
__TTLS_MPI_PROFILES_N == 8
TTLS_MPI_PROFILE_ECDH == 0

NULL == 0
Cpus == 0 .. (NCpus - 1)
ProfileIds == 0 .. (__TTLS_MPI_PROFILES_N - 1)
PkTypes == {"TTLS_PK_NONE", "TTLS_PK_RSA", "TTLS_PK_ECKEY",
            "TTLS_PK_ECKEY_DH", "TTLS_PK_ECDSA"}

(* ------------------------------ layout -------------------------------- *)
FirstHighPage == 2 + 2 * NCpus
FramePages == {1} \cup { FirstHighPage + j : j \in 0 .. (NFrames - 2) }
UnmappedPage == FirstHighPage + NFrames - 1
PageAddr(p) == p * PAGE_SIZE
StackBase(k) == PageAddr(2 + 2 * k)
BadPtr == PageAddr(UnmappedPage) + 8

(* input sets of the callers *)
AllocSizes == {1000, 3100, 4000}
CtxSizes == {100, PAGE_SIZE, PAGE_SIZE + 1}
SpOffs == {PAGE_SIZE}
XOffs == {2048}
CtxOffs == {0, 2048}
WriteLens == {512, 2048}
EcdhCtxLens == {1024}

(* a & PAGE_MASK and a & ~PAGE_MASK, PAGE_MASK == ~(PAGE_SIZE - 1) *)
AndPageMask(a) == (a \div PAGE_SIZE) * PAGE_SIZE
AndNotPageMask(a) == a % PAGE_SIZE

Min(a, b) == IF a < b THEN a ELSE b
Max(a, b) == IF a > b THEN a ELSE b

MPI_POOL_DATA(mp) == mp + HdrSize
(* faulty variant: the free pointer forgets the pool header *)
MPI_POOL_FREE_PTR_NoHeader(mp, curr) == mp + curr
MPI_POOL_FREE_PTR(mp, curr) == mp + HdrSize + curr

VARIABLES
    phase,              \* "uninit", "up", "down": subsystem lifecycle
    fault,              \* "none", or the kernel fault that stopped the run
    st,                 \* st[p]: "free" or "used", per page frame
    pool,               \* pool[p]: the header [curr, size] stored in frame p
    mem,                \* mem[p]: ranges of non-zero bytes in frame p
    g_tmp_mpool,        \* per-CPU pointer to the transient pool
    mpi_profiles,       \* mpi_profiles[i].profile
    has_empty_profile,  \* static flag of ttls_mpi_profile_set
    ctxs,               \* pointers returned by ttls_mpi_pool_alloc, still live
    last,               \* the last call and what it returned
    nalloc,             \* history: allocate calls made so far
    wasReset,           \* history: the CPU's pool has been reset
    firstAddr,          \* history: address of the pool's first allocation
    prepRuns,           \* history: runs of the preparation routine per slot
    prepOk,             \* history: successful preparations per slot
    freedDirty,         \* history: frames released while holding secrets
    sk_user_data,       \* sk->sk_user_data of every socket
    proto_type,         \* the type field at the head of every object
    conn_cache          \* conn_cache: "free" or "live", per object

vars == <<phase, fault, st, pool, mem, g_tmp_mpool, mpi_profiles,
          has_empty_profile, ctxs, last, nalloc, wasReset, firstAddr,
          prepRuns, prepOk, freedDirty, sk_user_data, proto_type,
          conn_cache>>
(* the state of the connection downcalls, and the state of the pools they
   leave alone *)
connVars == <<sk_user_data, proto_type, conn_cache>>
mpoolVars == <<phase, st, pool, mem, g_tmp_mpool, mpi_profiles,
               has_empty_profile, ctxs, nalloc, wasReset, firstAddr,
               prepRuns, prepOk, freedDirty>>

ZeroHdr == [curr |-> 0, size |-> 0]
Call(op, cpu, x, n, mp, ret, ptr) ==
    [op |-> op, cpu |-> cpu, x |-> x, n |-> n, mp |-> mp, ret |-> ret,
     ptr |-> ptr, pk |-> ""]

(* ---------------------------- page memory ----------------------------- *)
(* The memory a handler works on: [st, pool, mem, fault, freedDirty]. *)
Memory == [st |-> st, pool |-> pool, mem |-> mem, fault |-> fault,
           freedDirty |-> freedDirty]

FreeFrames == { p \in FramePages : st[p] = "free" }
IsFrameBase(a) == a \div PAGE_SIZE \in FramePages /\ a % PAGE_SIZE = 0
IsPoolIn(m, a) == IsFrameBase(a) /\ m.st[a \div PAGE_SIZE] = "used"
IsPool(a) == IsPoolIn(Memory, a)

(* the non-zero ranges left after zeroing offsets [lo, hi) *)
ZeroRanges(rs, lo, hi) ==
    IF hi <= lo THEN rs
    ELSE { <<r[1], Min(r[2], lo)>> : r \in { q \in rs : q[1] < lo } }
         \cup { <<Max(r[1], hi), r[2]>> : r \in { q \in rs : q[2] > hi } }

(* the header after zeroing offsets [lo, hi) of its page *)
ZeroHeader(h, lo, hi) == IF lo <= 0 /\ hi >= HdrSize THEN ZeroHdr ELSE h

(* faulty variant: the zeroing writes nothing *)
bzero_fast_Nothing(m, addr, len) == m
(* bzero_fast(addr, len) / memset(addr, 0, len) *)
bzero_fast(m, addr, len) ==
    [m EXCEPT
       !.mem = [p \in FramePages |->
                  ZeroRanges(m.mem[p], addr - PageAddr(p),
                             addr + len - PageAddr(p))],
       !.pool = [p \in FramePages |->
                  ZeroHeader(m.pool[p], addr - PageAddr(p),
                             addr + len - PageAddr(p))]]

(* __get_free_pages(gfp | __GFP_ZERO, MCTX_ORDER) handing out frame p *)
get_free_pages(m, p) ==
    [m EXCEPT !.st[p] = "used", !.pool[p] = ZeroHdr, !.mem[p] = {}]

(* free_pages(addr, MCTX_ORDER) *)
free_pages(m, addr) ==
    IF IsPoolIn(m, addr)
    THEN LET p == addr \div PAGE_SIZE IN
         [m EXCEPT !.st[p] = "free",
                   !.freedDirty = IF m.mem[p] # {} THEN @ \cup {p} ELSE @]
    ELSE [m EXCEPT !.fault = "badfree"]

Commit(m) ==
    /\ st' = m.st
    /\ pool' = m.pool
    /\ mem' = m.mem
    /\ fault' = m.fault
    /\ freedDirty' = m.freedDirty

(* ------------------------- pool allocator core ------------------------ *)
ttls_mpi_pool_init(m, mp) ==
    [m EXCEPT !.pool[mp \div PAGE_SIZE] =
                  [curr |-> MPI_POOL_DATA(mp), size |-> 0]]

(* a: the address; sp: the address of the local a; cpu: the running CPU *)
__mpi_pool(a, sp, cpu) ==
    IF sp < a /\ a < sp + 2 * PAGE_SIZE
    THEN g_tmp_mpool[cpu]
    ELSE AndNotPageMask(a)

(* faulty variant: the capacity check forgets what is already accounted *)
AllocExceeds_IgnoreUsed(h, n) == HdrSize + n > PAGE_SIZE
(* the capacity check of the allocation, WARN_ON_ONCE(...) *)
AllocExceeds(h, n) == HdrSize + h.size + n > PAGE_SIZE

(* the header after a successful allocation of n bytes *)
AllocAdvance(h, n) == [curr |-> h.curr + n, size |-> h.size + n]

(* faulty variant: the cleanup leaves the offset where it was *)
CleanupHeader_KeepCurr(h) == h
(* the header after ttls_mpi_cleanup_ctx() *)
CleanupHeader(h) == [h EXCEPT !.curr = 0]

(* Addresses handed to pool resolution: an MPI in the caller's stack frame
   and MPIs inside page frames. *)
XAddrs(sp) == {sp + 256} \cup { PageAddr(p) + o : p \in FramePages, o \in XOffs }
(* Addresses handed to the allocation: an MPI in the caller's stack frame
   and an MPI inside the page frame that follows the stacks. *)
AllocXs(sp) == {sp + 256} \cup { PageAddr(FirstHighPage) + o : o \in XOffs }

(* __mpi_pool() applied on its own to an address *)
Resolve ==
    /\ phase = "up" /\ fault = "none"
    /\ \E cpu \in Cpus, spo \in SpOffs :
         \E x \in XAddrs(StackBase(cpu) + spo) :
            last' = Call("resolve", cpu, x, 0,
                         __mpi_pool(x, StackBase(cpu) + spo, cpu), "ok", NULL)
    /\ UNCHANGED <<phase, fault, st, pool, mem, g_tmp_mpool, mpi_profiles,
                   has_empty_profile, ctxs, nalloc, wasReset, firstAddr,
                   prepRuns, prepOk, freedDirty>>
    /\ UNCHANGED connVars

(* ttls_mpi_profile_alloc_mpi(x, n) on CPU cpu.  The source resolves the
   pool with __mpi_profile(x), a name it never defines; __mpi_pool() is the
   only resolution routine of the file and is what is applied here.  A pool
   pointer that is not the base of an allocated page (the NULL page) makes
   the read of mp->size fault. *)
ttls_mpi_profile_alloc_mpi(cpu, sp, x, n) ==
    LET mp == __mpi_pool(x, sp, cpu)
        p == mp \div PAGE_SIZE
        ptr == MPI_POOL_FREE_PTR(mp, pool[p].curr)
    IN
    IF ~IsPool(mp)
    THEN /\ fault' = "oops"
         /\ last' = Call("alloc", cpu, x, n, mp, "oops", NULL)
         /\ UNCHANGED <<pool, firstAddr>>
    ELSE IF AllocExceeds(pool[p], n)
    THEN /\ last' = Call("alloc", cpu, x, n, mp, "ENOMEM", NULL)
         /\ UNCHANGED <<pool, fault, firstAddr>>
    ELSE IF x >= ptr
    THEN /\ fault' = "BUG"
         /\ last' = Call("alloc", cpu, x, n, mp, "BUG", ptr)
         /\ UNCHANGED <<pool, firstAddr>>
    ELSE /\ pool' = [pool EXCEPT ![p] = AllocAdvance(@, n)]
         /\ last' = Call("alloc", cpu, x, n, mp, "ok", ptr)
         /\ firstAddr' = [firstAddr EXCEPT
                            ![cpu] = IF @ = NULL THEN ptr ELSE @]
         /\ UNCHANGED fault

Alloc ==
    /\ phase = "up" /\ fault = "none"
    /\ \E cpu \in Cpus, spo \in SpOffs, n \in AllocSizes :
         /\ nalloc < MaxAllocs
         /\ \E x \in AllocXs(StackBase(cpu) + spo) :
              ttls_mpi_profile_alloc_mpi(cpu, StackBase(cpu) + spo, x, n)
         /\ nalloc' = nalloc + 1
    /\ UNCHANGED <<phase, st, mem, g_tmp_mpool, mpi_profiles,
                   has_empty_profile, ctxs, wasReset, prepRuns, prepOk,
                   freedDirty>>
    /\ UNCHANGED connVars

(* ttls_mpi_cleanup_ctx() on CPU cpu.  BUG_ON(mp->mem_alloc < data) reads a
   field TlsMpiPool does not have and is left out. *)
ttls_mpi_cleanup_ctx(cpu) ==
    LET mp == g_tmp_mpool[cpu]
        p == mp \div PAGE_SIZE
        data == MPI_POOL_DATA(mp)
    IN
    IF pool[p].curr > pool[p].size
    THEN /\ fault' = "BUG"
         /\ UNCHANGED <<st, pool, mem, freedDirty>>
    ELSE Commit([bzero_fast(Memory, data, pool[p].curr)
                    EXCEPT !.pool[p] = CleanupHeader(pool[p])])

Cleanup ==
    /\ phase = "up" /\ fault = "none"
    /\ \E cpu \in Cpus :
         /\ ttls_mpi_cleanup_ctx(cpu)
         /\ last' = Call("cleanup", cpu, NULL, 0, g_tmp_mpool[cpu], "ok", NULL)
         /\ wasReset' = [wasReset EXCEPT ![cpu] = TRUE]
    /\ UNCHANGED <<phase, g_tmp_mpool, mpi_profiles, has_empty_profile, ctxs,
                   nalloc, firstAddr, prepRuns, prepOk>>
    /\ UNCHANGED connVars

(* faulty variant: the page is released as it is *)
ttls_mpi_free_mpool_NoZero(m, ctx) == free_pages(m, AndPageMask(ctx))
(* ttls_mpi_free_mpool(ctx) *)
ttls_mpi_free_mpool(m, ctx) ==
    LET addr == AndPageMask(ctx) IN
    free_pages(bzero_fast(m, addr, PAGE_SIZE * (2 ^ MCTX_ORDER)), addr)

FreeMpool ==
    /\ phase = "up" /\ fault = "none"
    /\ \E c \in ctxs, o \in CtxOffs :
         /\ Commit(ttls_mpi_free_mpool(Memory, c + o))
         /\ ctxs' = ctxs \ {c}
         /\ last' = Call("free_mpool", 0, c + o, 0, AndPageMask(c + o), "ok",
                         NULL)
    /\ UNCHANGED <<phase, g_tmp_mpool, mpi_profiles, has_empty_profile,
                   nalloc, wasReset, firstAddr, prepRuns, prepOk>>
    /\ UNCHANGED connVars

(* ttls_mpi_pool_alloc(n, gfp_mask); f is the frame __get_free_pages()
   hands out, NULL when it fails *)
ttls_mpi_pool_alloc(n, f) ==
    IF n > PAGE_SIZE * (2 ^ MCTX_ORDER)
    THEN /\ fault' = "BUG"
         /\ last' = Call("pool_alloc", 0, NULL, n, NULL, "BUG", NULL)
         /\ UNCHANGED <<st, pool, mem, freedDirty, ctxs>>
    ELSE IF f = NULL
    THEN /\ last' = Call("pool_alloc", 0, NULL, n, NULL, "NULL", NULL)
         /\ UNCHANGED <<st, pool, mem, fault, freedDirty, ctxs>>
    ELSE LET mp == PageAddr(f)
             m1 == ttls_mpi_pool_init(get_free_pages(Memory, f), mp)
         IN /\ Commit([m1 EXCEPT !.pool[f].curr = @ + n])
            /\ ctxs' = ctxs \cup {MPI_POOL_DATA(mp)}
            /\ last' = Call("pool_alloc", 0, NULL, n, mp, "ok",
                            MPI_POOL_DATA(mp))

PoolAlloc ==
    /\ phase = "up" /\ fault = "none"
    /\ \E n \in CtxSizes, f \in FreeFrames \cup {NULL} :
         ttls_mpi_pool_alloc(n, f)
    /\ UNCHANGED <<phase, g_tmp_mpool, mpi_profiles, has_empty_profile,
                   nalloc, wasReset, firstAddr, prepRuns, prepOk>>
    /\ UNCHANGED connVars

(* --------------------------- profile registry ------------------------- *)
(* ttls_mpi_profile_for_cert(pid, pkey); the source compares id, taken to
   be its parameter pid *)
ttls_mpi_profile_for_cert(pid, type) ==
    CASE type = "TTLS_PK_ECKEY" -> pid = TTLS_MPI_PROFILE_ECDH
      [] type = "TTLS_PK_ECKEY_DH" -> FALSE
      [] type = "TTLS_PK_ECDSA" -> FALSE
      [] type = "TTLS_PK_RSA" -> FALSE
      [] OTHER -> FALSE

EcOutcomes == {"params_fail", "comb_fail", "ok"}

(* ttls_mpi_profile_create_ec(pkey): f is the frame __get_free_pages()
   hands out (NULL: none), outcome says which of ttls_ecdh_get_params()
   and ecp_precompute_comb() fails, wlen is the extent of the ECDH context
   they write. *)
ttls_mpi_profile_create_ec(m, f, outcome, wlen) ==
    IF f = NULL
    THEN [m |-> m, mp |-> NULL]
    ELSE LET m1 == get_free_pages(m, f)
             m2 == [m1 EXCEPT !.mem[f] = {<<HdrSize, HdrSize + wlen>>}]
         IN IF outcome = "params_fail" THEN [m |-> m1, mp |-> NULL]
            ELSE IF outcome = "comb_fail" THEN [m |-> m2, mp |-> NULL]
            ELSE [m |-> m2, mp |-> PageAddr(f)]

(* faulty variant: the loop does not skip a slot that is already set *)
SlotFilled_Never(profs, i) == FALSE
(* mpi_profiles[i].profile is set: "already initialized" *)
SlotFilled(profs, i) == profs[i] # NULL

(* One iteration of the loop of ttls_mpi_profile_set(); s holds the locals
   mp, n, the return value once the function has returned (ret # "run"),
   the registry and the memory.  The TTLS_PK_RSA and default branches of
   the switch leave mp as it is. *)
ProfileSetStep(i, s, type, f, outcome, wlen) ==
    IF SlotFilled(s.profs, i)
    THEN [s EXCEPT !.n = @ + 1]
    ELSE IF ~ttls_mpi_profile_for_cert(i, type)
    THEN s
    ELSE LET s1 ==
               IF s.mp = NULL
               THEN CASE type \in {"TTLS_PK_ECKEY", "TTLS_PK_ECKEY_DH",
                                   "TTLS_PK_ECDSA"} ->
                           LET r == ttls_mpi_profile_create_ec(s.m, f, outcome,
                                                               wlen)
                           IN IF r.mp = NULL
                              THEN [s EXCEPT !.m = r.m, !.ret = "EINVAL",
                                             !.runs[i] = @ + 1]
                              ELSE [s EXCEPT !.m = r.m, !.mp = r.mp,
                                             !.runs[i] = @ + 1,
                                             !.oks[i] = @ + 1]
                      [] type = "TTLS_PK_RSA" -> s
                      [] OTHER -> s
               ELSE s
         IN IF s1.ret = "EINVAL" THEN s1
            ELSE [s1 EXCEPT !.profs[i] = s1.mp, !.n = @ + 1]

RECURSIVE ProfileSetLoop(_, _, _, _, _, _)
ProfileSetLoop(i, s, type, f, outcome, wlen) ==
    IF i = __TTLS_MPI_PROFILES_N \/ s.ret # "run" THEN s
    ELSE ProfileSetLoop(i + 1, ProfileSetStep(i, s, type, f, outcome, wlen),
                        type, f, outcome, wlen)

(* faulty variant: one counted slot is taken for all of them *)
AllFilled_AnyCounted(n) == n >= 1
(* the test that every slot was counted, n == __TTLS_MPI_PROFILES_N *)
AllFilled(n) == n = __TTLS_MPI_PROFILES_N

(* the values the uninitialized local mp of ttls_mpi_profile_set can hold *)
UninitPtrs == {NULL, BadPtr}

(* ttls_mpi_profile_set(crt): type is crt->pk->pk_info->type, mp0 the
   value the uninitialized local mp happens to hold *)
ttls_mpi_profile_set(type, mp0, f, outcome, wlen) ==
    IF ~has_empty_profile
    THEN /\ last' = [Call("profile_set", 0, NULL, 0, NULL, "0", NULL)
                       EXCEPT !.pk = type]
         /\ UNCHANGED <<st, pool, mem, fault, freedDirty, mpi_profiles,
                        has_empty_profile, prepRuns, prepOk>>
    ELSE LET s0 == [m |-> Memory, profs |-> mpi_profiles, mp |-> mp0,
                    n |-> 0, ret |-> "run", runs |-> prepRuns,
                    oks |-> prepOk]
             s == ProfileSetLoop(0, s0, type, f, outcome, wlen)
         IN /\ Commit(s.m)
            /\ mpi_profiles' = s.profs
            /\ prepRuns' = s.runs
            /\ prepOk' = s.oks
            /\ has_empty_profile' =
                 IF s.ret = "run" /\ AllFilled(s.n)
                 THEN FALSE ELSE has_empty_profile
            /\ last' = [Call("profile_set", 0, NULL, 0, s.mp,
                             IF s.ret = "run" THEN "0" ELSE s.ret, NULL)
                          EXCEPT !.pk = type]

ProfileSet ==
    /\ phase = "up" /\ fault = "none"
    /\ prepRuns[TTLS_MPI_PROFILE_ECDH] < MaxPrep
    /\ \E type \in PkTypes, mp0 \in UninitPtrs, f \in FreeFrames \cup {NULL},
          outcome \in EcOutcomes, wlen \in EcdhCtxLens :
         ttls_mpi_profile_set(type, mp0, f, outcome, wlen)
    /\ UNCHANGED <<phase, g_tmp_mpool, ctxs, nalloc, wasReset, firstAddr>>
    /\ UNCHANGED connVars

(* ttls_mpi_profile_alloc(tls): prof is tls->peer_conf->mpi_prof and ecdh
   says whether the ciphersuite uses ECDH or ECDHE.  Both branches are
   empty: nothing is copied, nothing is stored into the handshake, and the
   function returns 0.  last.x is prof, last.mp the pool the handshake holds
   on return. *)
ttls_mpi_profile_alloc(prof, ecdh) ==
    last' = Call("profile_alloc", 0, prof, IF ecdh THEN 1 ELSE 0,
                 NULL, "0", NULL)

ProfileAlloc ==
    /\ phase = "up" /\ fault = "none"
    /\ \E i \in ProfileIds, conf \in BOOLEAN, ecdh \in BOOLEAN :
         ttls_mpi_profile_alloc(IF conf THEN mpi_profiles[i] ELSE NULL, ecdh)
    /\ UNCHANGED <<phase, fault, st, pool, mem, g_tmp_mpool, mpi_profiles,
                   has_empty_profile, ctxs, nalloc, wasReset, firstAddr,
                   prepRuns, prepOk, freedDirty>>
    /\ UNCHANGED connVars

(* ------------------------- subsystem lifecycle ------------------------ *)
RECURSIVE ExitProfiles(_, _)
ExitProfiles(i, m) ==
    IF i = __TTLS_MPI_PROFILES_N \/ m.fault # "none" THEN m
    ELSE ExitProfiles(i + 1,
                      IF mpi_profiles[i] # NULL
                      THEN free_pages(m, mpi_profiles[i])
                      ELSE m)

RECURSIVE ExitCpus(_, _, _)
ExitCpus(i, m, tmp) ==
    IF i = NCpus \/ m.fault # "none" THEN m
    ELSE IF ~IsPoolIn(m, tmp[i])
    THEN [m EXCEPT !.fault = "oops"]
    ELSE ExitCpus(i + 1,
                  free_pages(bzero_fast(m, MPI_POOL_DATA(tmp[i]),
                                        m.pool[tmp[i] \div PAGE_SIZE].curr),
                             tmp[i]),
                  tmp)

(* ttls_mpool_exit() run on memory m with the per-CPU pointers tmp *)
ttls_mpool_exit(m, tmp) == ExitCpus(0, ExitProfiles(0, m), tmp)

MpoolExit ==
    /\ phase = "up" /\ fault = "none"
    /\ Commit(ttls_mpool_exit(Memory, g_tmp_mpool))
    /\ phase' = "down"
    /\ last' = Call("mpool_exit", 0, NULL, 0, NULL, "ok", NULL)
    /\ UNCHANGED <<g_tmp_mpool, mpi_profiles, has_empty_profile, ctxs,
                   nalloc, wasReset, firstAddr, prepRuns, prepOk>>
    /\ UNCHANGED connVars

(* The loop of ttls_mpool_init(): got[cpu] is the frame __get_free_pages()
   hands out for cpu, NULL when it fails.  s.ok turns FALSE at the goto. *)
RECURSIVE InitCpus(_, _, _)
InitCpus(cpu, s, got) ==
    IF cpu = NCpus \/ ~s.ok THEN s
    ELSE IF got[cpu] = NULL
    THEN [s EXCEPT !.ok = FALSE]
    ELSE InitCpus(cpu + 1,
                  [s EXCEPT !.m = get_free_pages(s.m, got[cpu]),
                            !.tmp[cpu] = PageAddr(got[cpu])],
                  got)

(* got is something the allocator can do: distinct free frames up to the
   first failure, nothing asked after it *)
InitChoice(got) ==
    /\ \A i, j \in Cpus : i # j /\ got[i] # NULL => got[i] # got[j]
    /\ \A i, j \in Cpus : i < j /\ got[i] = NULL => got[j] = NULL

ttls_mpool_init(got) ==
    LET s == InitCpus(0, [m |-> Memory, tmp |-> g_tmp_mpool, ok |-> TRUE],
                      got)
    IN /\ g_tmp_mpool' = s.tmp
       /\ IF s.ok
          THEN /\ Commit(s.m)
               /\ phase' = "up"
               /\ last' = Call("mpool_init", 0, NULL, 0, NULL, "0", NULL)
          ELSE LET m == ttls_mpool_exit(s.m, s.tmp)
               IN /\ Commit(m)
                  /\ phase' = IF m.fault = "none" THEN "down" ELSE phase
                  /\ last' = Call("mpool_init", 0, NULL, 0, NULL,
                                  IF m.fault = "none" THEN "ENOMEM"
                                  ELSE m.fault, NULL)

MpoolInit ==
    /\ phase = "uninit" /\ fault = "none"
    /\ \E got \in [Cpus -> FreeFrames \cup {NULL}] :
         InitChoice(got) /\ ttls_mpool_init(got)
    /\ UNCHANGED <<mpi_profiles, has_empty_profile, ctxs, nalloc, wasReset,
                   firstAddr, prepRuns, prepOk>>
    /\ UNCHANGED connVars

(* ------------------------------ callers ------------------------------- *)
(* The caller stores the limbs of its MPI in the range it was handed. *)
WriteMpi ==
    /\ phase = "up" /\ fault = "none"
    /\ last.op = "alloc" /\ last.ret = "ok"
    /\ LET p == last.mp \div PAGE_SIZE
           off == last.ptr - last.mp
       IN mem' = [mem EXCEPT ![p] = @ \cup {<<off, off + last.n>>}]
    /\ last' = [last EXCEPT !.op = "write"]
    /\ UNCHANGED <<phase, fault, st, pool, g_tmp_mpool, mpi_profiles,
                   has_empty_profile, ctxs, nalloc, wasReset, firstAddr,
                   prepRuns, prepOk, freedDirty>>
    /\ UNCHANGED connVars

(* The caller fills the first len bytes of the context it allocated. *)
WriteCtx ==
    /\ phase = "up" /\ fault = "none"
    /\ \E c \in ctxs, len \in WriteLens :
         LET p == c \div PAGE_SIZE
             off == c - PageAddr(p)
         IN /\ off + len <= PAGE_SIZE
            /\ len <= pool[p].curr - c
            /\ mem' = [mem EXCEPT ![p] = @ \cup {<<off, off + len>>}]
            /\ last' = Call("write_ctx", 0, c, len, PageAddr(p), "ok", c)
    /\ UNCHANGED <<phase, fault, st, pool, g_tmp_mpool, mpi_profiles,
                   has_empty_profile, ctxs, nalloc, wasReset, firstAddr,
                   prepRuns, prepOk, freedDirty>>
    /\ UNCHANGED connVars

(* --------------------------- specification ---------------------------- *)
(* ----------------------- connection downcalls ------------------------ *)
(* Every socket starts with sk_user_data pointing to its SsProto
   placeholder; a TfwConnection begins with a copy of SsProto, so the type
   field is at the head of both kinds of object and proto_type[o] is that
   field of object o.  Of the type only the direction flags are kept. *)
Socks == 0 .. (NSocks - 1)
ProtoOf(s) == 1 + s
Placeholders == { ProtoOf(s) : s \in Socks }
ConnObjs == (NSocks + 1) .. (2 * NSocks)
ConnFlags == {"Conn_Clnt", "Conn_Srv"}

(* tfw_connection_alloc(): c is the object kmem_cache_alloc() hands out,
   zeroed; NULL when it fails *)
ConnAllocChoice(c) == c = NULL \/ (c \in ConnObjs /\ conn_cache[c] = "free")

(* tfw_connection_new(sk, type, destructor) *)
tfw_connection_new(sk, type, c) ==
    LET proto == sk_user_data[sk]
        ptype == proto_type[proto] \cup {type}
    IN
    IF proto = NULL
    THEN /\ fault' = "BUG"
         /\ last' = Call("conn_new", 0, sk, 0, NULL, "BUG", NULL)
         /\ UNCHANGED connVars
    ELSE IF c = NULL
    THEN /\ proto_type' = [proto_type EXCEPT ![proto] = ptype]
         /\ last' = Call("conn_new", 0, sk, 0, proto, "NULL", NULL)
         /\ UNCHANGED <<fault, sk_user_data, conn_cache>>
    ELSE /\ proto_type' = [proto_type EXCEPT ![proto] = ptype, ![c] = ptype]
         /\ conn_cache' = [conn_cache EXCEPT ![c] = "live"]
         /\ sk_user_data' = [sk_user_data EXCEPT ![sk] = c]
         /\ last' = Call("conn_new", 0, sk, 0, proto, "ok", c)
         /\ UNCHANGED fault

ConnNew ==
    /\ fault = "none"
    /\ \E sk \in Socks, type \in ConnFlags, c \in ConnObjs \cup {NULL} :
         ConnAllocChoice(c) /\ tfw_connection_new(sk, type, c)
    /\ UNCHANGED mpoolVars

(* tfw_connection_free(c): kmem_cache_free(conn_cache, c) *)
tfw_connection_free(c) ==
    IF c \in ConnObjs /\ conn_cache[c] = "live"
    THEN /\ conn_cache' = [conn_cache EXCEPT ![c] = "free"]
         /\ UNCHANGED fault
    ELSE /\ fault' = "badfree"
         /\ UNCHANGED conn_cache

(* the test of tfw_connection_close(): the object carries a direction *)
HasConnFlag(o) == proto_type[o] \cap ConnFlags # {}

(* tfw_connection_close(sk); last.ptr is the object it destructed and
   freed, NULL when it did neither *)
tfw_connection_close(sk) ==
    LET conn == sk_user_data[sk] IN
    IF conn # NULL /\ HasConnFlag(conn)
    THEN /\ tfw_connection_free(conn)
         /\ sk_user_data' = [sk_user_data EXCEPT ![sk] = NULL]
         /\ last' = Call("conn_close", 0, sk, 0, NULL, "0", conn)
         /\ UNCHANGED proto_type
    ELSE /\ last' = Call("conn_close", 0, sk, 0, NULL, "0", NULL)
         /\ UNCHANGED <<fault, connVars>>

ConnClose ==
    /\ fault = "none"
    /\ \E sk \in Socks : tfw_connection_close(sk)
    /\ UNCHANGED mpoolVars

Init ==
    /\ phase = "uninit"
    /\ fault = "none"
    /\ st = [p \in FramePages |-> "free"]
    /\ pool = [p \in FramePages |-> ZeroHdr]
    /\ mem = [p \in FramePages |-> {}]
    /\ g_tmp_mpool = [k \in Cpus |-> NULL]
    /\ mpi_profiles = [i \in ProfileIds |-> NULL]
    /\ has_empty_profile = TRUE
    /\ ctxs = {}
    /\ last = Call("none", 0, NULL, 0, NULL, "ok", NULL)
    /\ nalloc = 0
    /\ wasReset = [k \in Cpus |-> FALSE]
    /\ firstAddr = [k \in Cpus |-> NULL]
    /\ prepRuns = [i \in ProfileIds |-> 0]
    /\ prepOk = [i \in ProfileIds |-> 0]
    /\ freedDirty = {}
    /\ sk_user_data = [s \in Socks |-> ProtoOf(s)]
    /\ proto_type = [o \in Placeholders \cup ConnObjs |-> {}]
    /\ conn_cache = [c \in ConnObjs |-> "free"]

Next ==
    \/ MpoolInit
    \/ Resolve
    \/ Alloc
    \/ Cleanup
    \/ ProfileAlloc
    \/ PoolAlloc
    \/ FreeMpool
    \/ ProfileSet
    \/ MpoolExit
    \/ WriteMpi
    \/ WriteCtx
    \/ ConnNew
    \/ ConnClose

Spec == Init /\ [][Next]_vars

(* The parts of the subsystem on their own: they share the page allocator
   and the teardown and nothing else.  SpecAlloc is the allocate/reset
   cycle of the transient pools, SpecPool adds what the callers write and
   the teardown, SpecProfile is the profile registry, SpecCtx the pools of
   ttls_mpi_pool_alloc(), SpecResolve pool resolution over the registry. *)
NextAlloc == MpoolInit \/ Alloc \/ Cleanup
SpecAlloc == Init /\ [][NextAlloc]_vars
NextPool == MpoolInit \/ Alloc \/ Cleanup \/ WriteMpi \/ MpoolExit
SpecPool == Init /\ [][NextPool]_vars
NextProfile == MpoolInit \/ ProfileSet \/ MpoolExit
SpecProfile == Init /\ [][NextProfile]_vars
NextCtx == MpoolInit \/ PoolAlloc \/ WriteCtx \/ FreeMpool \/ MpoolExit
SpecCtx == Init /\ [][NextCtx]_vars

NextBind == MpoolInit \/ ProfileSet \/ ProfileAlloc \/ MpoolExit
SpecBind == Init /\ [][NextBind]_vars
NextConn == ConnNew \/ ConnClose
SpecConn == Init /\ [][NextConn]_vars
NextResolve == MpoolInit \/ ProfileSet \/ Resolve \/ MpoolExit
SpecResolve == Init /\ [][NextResolve]_vars

TypeOK ==
    /\ phase \in {"uninit", "up", "down"}
    /\ fault \in {"none", "BUG", "oops", "badfree"}
    /\ \A p \in FramePages : st[p] \in {"free", "used"}

(* ------------------------------ claims -------------------------------- *)
LastFrame == last.mp \div PAGE_SIZE
InStack(cpu, a) == StackBase(cpu) <= a /\ a < StackBase(cpu) + 2 * PAGE_SIZE
(* the step is an allocate that reached a pool (no fault at resolution) *)
AllocStep == last'.op = "alloc" /\ last'.ret # "oops"

(* C1: an allocate that would exceed the capacity of the pool (header +
   offset + n beyond the page) returns -ENOMEM and leaves curr and size of
   every pool as they were; a rejected allocate changes nothing; and when
   an allocate step changes the offset of a pool, the allocate succeeded,
   the pool is the one it resolved and the offset advanced by exactly n. *)
C1_RejectLeavesPool ==
    [][AllocStep =>
         LET p == last'.mp \div PAGE_SIZE
             n == last'.n
         IN /\ HdrSize + pool[p].curr + n > PAGE_SIZE
                 => last'.ret = "ENOMEM" /\ pool' = pool
            /\ last'.ret = "ENOMEM" => pool' = pool
            /\ \A q \in FramePages :
                 pool'[q] # pool[q]
                   => /\ last'.ret = "ok" /\ q = p
                      /\ pool'[q].curr = pool[q].curr + n]_vars

(* C1 witness: an allocate was rejected on a pool it would have overrun. *)
C1_Witness ==
    /\ last.op = "alloc" /\ last.ret = "ENOMEM"
    /\ pool[LastFrame].curr > 0
    /\ HdrSize + pool[LastFrame].curr + last.n > PAGE_SIZE

(* C2: on a pool that was never reset, an allocate whose size together
   with everything allocated before fits the data region is not rejected;
   the range it returns lies inside the data region of the pool's page,
   starts where the previous allocation ended (at the sum of the earlier
   sizes) and the next one will start where it ends.  (A call whose MPI x
   lies above the pool trips BUG_ON(x >= ptr) and returns nothing.) *)
C2_WithinAndDisjoint ==
    [][(AllocStep /\ ~wasReset[last'.cpu]
          /\ HdrSize + pool[last'.mp \div PAGE_SIZE].size + last'.n
               <= PAGE_SIZE) =>
         LET mp == last'.mp
             p == mp \div PAGE_SIZE
             n == last'.n
         IN /\ last'.ret # "ENOMEM"
            /\ last'.ret = "ok" =>
                 /\ last'.ptr >= MPI_POOL_DATA(mp)
                 /\ last'.ptr + n <= mp + PAGE_SIZE
                 /\ last'.ptr = MPI_POOL_DATA(mp) + pool[p].size
                 /\ MPI_POOL_DATA(mp) + pool'[p].curr = last'.ptr + n
                 /\ pool'[p].size = pool[p].size + n]_vars

(* C2 witness: a second allocation succeeded on a pool never reset. *)
C2_Witness ==
    /\ last.op = "alloc" /\ last.ret = "ok"
    /\ ~wasReset[last.cpu]
    /\ last.ptr > MPI_POOL_DATA(last.mp)

(* C4: a successful allocate made right after a reset of the same CPU's
   pool, on a pool that had allocations before, returns the address of
   the pool's first allocation, which is the base of its data region. *)
C4_ResetReuse ==
    [][(last.op = "cleanup" /\ last'.op = "alloc" /\ last'.ret = "ok"
          /\ last'.cpu = last.cpu /\ firstAddr[last.cpu] # NULL) =>
         /\ last'.ptr = firstAddr[last.cpu]
         /\ last'.ptr = MPI_POOL_DATA(last'.mp)]_vars

(* C4 witness: an allocation succeeded after a reset that followed
   earlier allocations. *)
C4_Witness ==
    /\ last.op = "alloc" /\ last.ret = "ok"
    /\ wasReset[last.cpu]
    /\ pool[LastFrame].curr = last.n
    /\ pool[LastFrame].size > last.n

(* C5: reset restores the whole capacity, so an allocate of a size that
   fits a fresh pool is never rejected while the offset of the pool is
   zero. *)
C5_ResetRestoresCapacity ==
    (last.op = "alloc" /\ last.ret = "ENOMEM" /\ pool[LastFrame].curr = 0)
        => HdrSize + last.n > PAGE_SIZE

(* C6: pool resolution of an address on the running CPU's stack gives that
   CPU's transient pool, and of an address inside the page of a registered
   profile pool gives the base of that page. *)
C6_ResolvePool ==
    last.op \in {"resolve", "alloc"} =>
        IF InStack(last.cpu, last.x)
        THEN last.mp = g_tmp_mpool[last.cpu]
        ELSE (\E i \in ProfileIds : mpi_profiles[i] = AndPageMask(last.x))
                => last.mp = AndPageMask(last.x)

(* C3: header plus offset of every pool stays within its one page. *)
C3_WithinPage ==
    \A p \in FramePages :
        st[p] = "used" => HdrSize + pool[p].curr <= PAGE_SIZE

ProfileSetStepTaken == last'.op = "profile_set"
(* the key of the call maps to slot i *)
CallFor(i) == ttls_mpi_profile_for_cert(i, last'.pk)

(* C7 as stated: the preparation routine of a scheme runs at most once,
   and a call for a scheme whose slot is filled returns success, takes no
   page and changes no registry slot. *)
C7_PrepRunsOnce ==
    [][/\ \A i \in ProfileIds : prepRuns'[i] <= 1
       /\ (ProfileSetStepTaken
             /\ \E i \in ProfileIds : CallFor(i) /\ mpi_profiles[i] # NULL)
            => /\ last'.ret = "0"
               /\ st' = st
               /\ mpi_profiles' = mpi_profiles]_vars

(* C7 amended: the preparation routine of a scheme completes successfully
   at most once and never runs for a slot that is filled (a preparation
   that failed registered nothing and may run again in a later call); a
   call for a scheme whose slot is filled returns success, takes no page
   and changes no registry slot. *)
C7_PrepSucceedsOnce ==
    [][/\ \A i \in ProfileIds :
            /\ prepOk'[i] <= 1
            /\ prepRuns'[i] # prepRuns[i] => mpi_profiles[i] = NULL
       /\ (ProfileSetStepTaken
             /\ \E i \in ProfileIds : CallFor(i) /\ mpi_profiles[i] # NULL)
            => /\ last'.ret = "0"
               /\ st' = st
               /\ prepRuns' = prepRuns
               /\ mpi_profiles' = mpi_profiles]_vars

(* C7 witness: a call for the ECDH scheme returned success without
   creating a pool, after the preparation had completed once. *)
C7_Witness ==
    /\ last.op = "profile_set" /\ last.pk = "TTLS_PK_ECKEY"
    /\ last.ret = "0" /\ last.mp = NULL
    /\ prepOk[TTLS_MPI_PROFILE_ECDH] = 1
    /\ mpi_profiles[TTLS_MPI_PROFILE_ECDH] # NULL

(* C8: no page is released while it still holds secret bytes. *)
C8_ZeroBeforeFree == freedDirty = {}

(* C9: a call with a key whose scheme has no preparation routine (RSA, an
   unrecognized type) does not return success. *)
C9_UnsupportedIsError ==
    (last.op = "profile_set" /\ last.pk \in {"TTLS_PK_RSA", "TTLS_PK_NONE"})
        => last.ret # "0"

(* C10: every filled registry slot holds a pool whose preparation completed
   successfully, and a call whose preparation fails returns the error and
   leaves the registry as it was. *)
C10_OnlyPreparedRegistered ==
    [][/\ \A i \in ProfileIds :
            mpi_profiles'[i] # NULL
              => prepOk'[i] >= 1 /\ IsFrameBase(mpi_profiles'[i])
       /\ (ProfileSetStepTaken /\ prepRuns' # prepRuns /\ prepOk' = prepOk)
            => last'.ret = "EINVAL" /\ mpi_profiles' = mpi_profiles]_vars

(* C11: the flag says "all filled" (has_empty_profile is FALSE) only while
   every registry slot holds a profile, it never turns back, and it is
   turned only by a call of ttls_mpi_profile_set. *)
C11_FlagNeverPremature ==
    [][/\ ~has_empty_profile' => \A i \in ProfileIds : mpi_profiles'[i] # NULL
       /\ ~has_empty_profile => ~has_empty_profile'
       /\ (has_empty_profile /\ ~has_empty_profile')
            => /\ ProfileSetStepTaken
               /\ \A i \in ProfileIds : mpi_profiles'[i] # NULL]_vars

(* C11 witness: a call has filled a slot while other slots are empty, and
   the flag still says that a profile is missing. *)
C11_Witness ==
    /\ last.op = "profile_set" /\ last.ret = "0"
    /\ mpi_profiles[TTLS_MPI_PROFILE_ECDH] # NULL
    /\ \E i \in ProfileIds : mpi_profiles[i] = NULL
    /\ has_empty_profile

(* the key types of the elliptic-curve schemes *)
EcPkTypes == {"TTLS_PK_ECKEY", "TTLS_PK_ECKEY_DH", "TTLS_PK_ECDSA"}

(* C12: once the profile of one scheme has been created and a later call
   for the key of another elliptic-curve scheme has returned success, two
   registry slots are filled, they hold two distinct pools, and the first
   profile is still in its slot. *)
C12_EachSchemeOwnProfile ==
    (/\ prepOk[TTLS_MPI_PROFILE_ECDH] >= 1
     /\ last.op = "profile_set" /\ last.ret = "0"
     /\ last.pk \in EcPkTypes \ {"TTLS_PK_ECKEY"})
        => /\ mpi_profiles[TTLS_MPI_PROFILE_ECDH] # NULL
           /\ \E i \in ProfileIds \ {TTLS_MPI_PROFILE_ECDH} :
                /\ mpi_profiles[i] # NULL
                /\ mpi_profiles[i] # mpi_profiles[TTLS_MPI_PROFILE_ECDH]

(* C13: ttls_mpi_profile_alloc returns an error when the configuration has
   no profile for the handshake, and when it returns success the handshake
   holds a pool. *)
C13_BindNeedsProfile ==
    last.op = "profile_alloc"
        => /\ last.x = NULL => last.ret # "0"
           /\ last.ret = "0" => last.mp # NULL

(* the address a lies neither in the stack of cpu, where the MPIs served by
   the transient pool live, nor in the page of that pool, nor in the page
   of a registered profile *)
NoPoolOwns(cpu, a) ==
    /\ ~InStack(cpu, a)
    /\ AndPageMask(a) # g_tmp_mpool[cpu]
    /\ \A i \in ProfileIds : mpi_profiles[i] # AndPageMask(a)

(* C14: an allocate for an address that no pool owns fails with a fault,
   reaches no pool and leaves every pool header as it was. *)
C14_ForeignAddressFails ==
    [][(last'.op = "alloc" /\ NoPoolOwns(last'.cpu, last'.x))
         => /\ last'.ret \notin {"ok", "ENOMEM"}
            /\ ~IsPool(last'.mp)
            /\ pool' = pool]_vars

(* the ranges rs hold a non-zero byte at some offset of [lo, hi) *)
Dirty(rs, lo, hi) == \E r \in rs : r[1] < hi /\ lo < r[2] /\ r[1] < r[2]

(* C15: in a transient pool every byte of the data region at or beyond the
   current offset is zero, so the range a successful allocate returns is
   all zeros when it is returned; and a reset zeroes the consumed region of
   its pool, sets the offset to zero and touches no other page. *)
C15_NoResidue ==
    [][/\ phase' = "up" =>
            \A cpu \in Cpus :
               LET p == g_tmp_mpool'[cpu] \div PAGE_SIZE
               IN ~Dirty(mem'[p], HdrSize + pool'[p].curr, PAGE_SIZE)
       /\ (last'.op = "alloc" /\ last'.ret = "ok")
            => ~Dirty(mem'[last'.mp \div PAGE_SIZE],
                      last'.ptr - last'.mp, last'.ptr - last'.mp + last'.n)
       /\ (last'.op = "cleanup" /\ last'.ret = "ok")
            => LET p == last'.mp \div PAGE_SIZE
               IN /\ pool'[p].curr = 0
                  /\ mem'[p] = {}
                  /\ \A q \in FramePages \ {p} :
                       mem'[q] = mem[q] /\ pool'[q] = pool[q]]_vars

(* C15 witness: after a reset of a pool that ranges had been allocated
   from, a range is allocated again at the base of its data region. *)
C15_Witness ==
    /\ last.op = "alloc" /\ last.ret = "ok"
    /\ wasReset[last.cpu]
    /\ last.ptr = MPI_POOL_DATA(last.mp)
    /\ pool[LastFrame].size > last.n
    /\ mem[LastFrame] = {}

(* C16: ttls_mpi_free_mpool(ctx) zeroes the whole page that holds ctx,
   header and data, and releases that page and no other; the page goes to
   the page allocator with no non-zero byte left in it. *)
C16_ZeroThenRelease ==
    [][last'.op = "free_mpool" =>
         LET p == last'.x \div PAGE_SIZE
         IN /\ st[p] = "used" /\ st'[p] = "free"
            /\ pool'[p] = ZeroHdr /\ mem'[p] = {}
            /\ freedDirty' = freedDirty /\ fault' = "none"
            /\ \A q \in FramePages \ {p} :
                 st'[q] = st[q] /\ pool'[q] = pool[q] /\ mem'[q] = mem[q]]_vars

(* C16 witness: a pool was destroyed through a pointer into the middle of
   its page; the page is free and holds only zeros. *)
C16_Witness ==
    /\ last.op = "free_mpool"
    /\ last.x > MPI_POOL_DATA(last.mp)
    /\ st[LastFrame] = "free"
    /\ pool[LastFrame] = ZeroHdr /\ mem[LastFrame] = {}

(* C17: after ttls_mpi_pool_alloc(n) the offset of the new pool is n (the
   initialization left it at zero, the allocation began at the base of the
   data region), and when n fits behind the header the free pointer lies
   inside the page of the pool. *)
C17_InitOffsetZero ==
    (last.op = "pool_alloc" /\ last.ret = "ok")
        => /\ last.ptr = MPI_POOL_DATA(last.mp)
           /\ pool[LastFrame].curr = last.n
           /\ last.n <= PAGE_SIZE - HdrSize
                => MPI_POOL_FREE_PTR(last.mp, pool[LastFrame].curr)
                     <= last.mp + PAGE_SIZE

(* C18: a ttls_mpool_init that could not get a page for some CPU returns
   -ENOMEM without a fault, and the pages it had taken for the CPUs before
   that one are free again. *)
C18_FailedInitCleansUp ==
    (last.op = "mpool_init" /\ last.ret # "0")
        => /\ last.ret = "ENOMEM"
           /\ fault = "none"
           /\ \A p \in FramePages : st[p] = "free"

(* C19: after the teardown has run to its end every page is back with the
   page allocator.  Under SpecProfile the pages in use are those of the
   transient pools and those ttls_mpi_profile_create_ec obtained. *)
C19_ProfilePagesReleased ==
    (phase = "down" /\ fault = "none")
        => \A p \in FramePages : st[p] = "free"

(* C20: the object a tfw_connection_close destructs and frees is a
   connection of conn_cache, never the SsProto placeholder of a socket; the
   free is sound (the object was live, freed once); and the socket is left
   with sk_user_data NULL. *)
C20_CloseFreesOnlyConnections ==
    (last.op = "conn_close" /\ last.ptr # NULL)
        => /\ last.ptr \in ConnObjs
           /\ last.ptr \notin Placeholders
           /\ fault = "none"
           /\ conn_cache[last.ptr] = "free"
           /\ sk_user_data[last.x] = NULL
====
